---------------------------- MODULE Spec2Model ----------------------------
(***************************************************************************)
(* Kenya Auth API (src/server.js): register, login, profile lookup and     *)
(* three diagnostic endpoints over one PostgreSQL table `users`, with      *)
(* bearer tokens signed by jsonwebtoken and passwords hashed by bcryptjs.  *)
(*                                                                         *)
(* The process is a single Node.js event loop: every handler runs          *)
(* synchronously up to its next `await`, so each action below is one such  *)
(* synchronous segment, and the segments of different requests interleave  *)
(* freely.  The store is an external collaborator: it may be unreachable   *)
(* (dbUp = FALSE), and the table `users` exists only after a CREATE TABLE  *)
(* has been executed (by createTables at startup or by migrate.js).        *)
(*                                                                         *)
(* The earlier revisions kept in the repository (src/unnamed/part_001,      *)
(* part_002) have the same register and login handlers and the same        *)
(* one-shot createTables (part_001 starts it from a 2 s timer); only        *)
(* server.js has the profile endpoint.  migrate.js is the stand-alone       *)
(* script that creates the table.                                          *)
(*                                                                         *)
(* Not modelled: created_at (no operation reads it back except the profile  *)
(* payload), the `iat` claim jsonwebtoken adds to every token, logging.    *)
(***************************************************************************)
EXTENDS Integers, FiniteSets, Sequences, TLC

\* Number of HTTP requests the service receives in one run.
MaxReq == 3

Req == 1..MaxReq

\* Values a client puts in request bodies; "" stands for a missing/falsy field.
Names == {"Amina"}
Emails == {"a@x.com", "b@x.com"}
Passwords == {"secret123"}
\* A login may also try a password nobody registered with.
LoginPasswords == Passwords \cup {"letmein"}
\* bcrypt draws a fresh random salt for every hash.
Salts == {"salt1", "salt2"}

\* const JWT_SECRET = process.env.JWT_SECRET || 'kenya-secret-2024'
JWT_SECRET == "kenya-secret-2024"

VARIABLES
    dbUp,         \* the PostgreSQL server is reachable through the pool
    tableExists,  \* relation `users` exists in the database
    startup,      \* createTables(): "pending" | "ready" | "failed"
    users,        \* rows of table users
    seq,          \* last value handed out by users_id_seq (SERIAL)
    req           \* the requests: body, position in the handler, response

vars == <<dbUp, tableExists, startup, users, seq, req>>

---------------------------------------------------------------------------
(* Tokens: jsonwebtoken                                                    *)

\* A compact JWT: wf = it parses as header.payload.signature; the signature
\* binds the key it was made with to the payload it was made over.
NoToken == [wf |-> FALSE, userId |-> 0, key |-> "", signedId |-> 0]

JwtSign(payload, secret) ==
    [wf |-> TRUE, userId |-> payload.userId, key |-> secret,
     signedId |-> payload.userId]

\* jwt.verify(token, secret) returns the payload, or throws.
JwtVerifies(token, secret) ==
    /\ token.wf
    /\ token.key = secret
    /\ token.signedId = token.userId

JwtPayload(token) == [userId |-> token.userId]

\* Tokens a client may present: genuinely signed ones, one whose payload was
\* altered after signing, and a string that is no JWT.
GarbageToken == [wf |-> FALSE, userId |-> 0, key |-> "garbage", signedId |-> 0]

SignedTokens == {JwtSign([userId |-> i], JWT_SECRET) : i \in {1, MaxReq}}

TamperedTokens == {[JwtSign([userId |-> 2], JWT_SECRET) EXCEPT !.userId = 1]}

PresentedTokens ==
    SignedTokens \cup TamperedTokens \cup {GarbageToken}

\* The Authorization header as its space-separated parts: parts = 0 is an
\* absent header, 1 a header with a single word, 2 "<scheme> <token>".
Headers ==
    {[parts |-> 0, token |-> NoToken], [parts |-> 1, token |-> NoToken]}
        \cup {[parts |-> 2, token |-> t] : t \in PresentedTokens}

\* req.headers.authorization?.split(' ')[1]
HeaderToken(h) == IF h.parts >= 2 THEN h.token ELSE NoToken

---------------------------------------------------------------------------
(* Passwords: bcryptjs                                                     *)

NoHash == [salt |-> "", digest |-> ""]

\* bcrypt.hash(password, 10): the stored string carries the salt and the
\* digest of (salt, password).
BcryptHash(password, salt) == [salt |-> salt, digest |-> <<salt, password>>]

\* A comparison that ignores the digest.
BcryptCompareAlways(password, hash) == hash.salt # ""

\* bcrypt.compare(password, hash): re-hash with the stored salt and compare.
BcryptCompare(password, hash) == BcryptHash(password, hash.salt) = hash

---------------------------------------------------------------------------
(* The store: table users                                                  *)

NoUser == [id |-> 0, name |-> "", email |-> ""]

Public(row) == [id |-> row.id, name |-> row.name, email |-> row.email]

\* A schema without the UNIQUE constraint on email.
EmailTakenNever(tbl, email) == FALSE

\* email TEXT UNIQUE NOT NULL
EmailTaken(tbl, email) == \E u \in tbl : u.email = email

\* A sequence that never advances.
NextValStuck(s) == 1

\* id SERIAL PRIMARY KEY: nextval('users_id_seq')
NextVal(s) == s + 1

\* Outcome of one query against table users: the driver throws when the
\* server is unreachable or the relation does not exist.
QueryError ==
    IF ~dbUp THEN "ECONNREFUSED"
    ELSE IF ~tableExists THEN "42P01"
    ELSE ""

\* res.status(500).json({ error: 'Server error: ' + error.message })
ServerError(code) ==
    IF code = "42P01"
    THEN "Server error: relation \"users\" does not exist"
    ELSE "Server error: connect ECONNREFUSED"

NoResult == [code |-> "none", row |-> NoUser]

SelectByEmail(tbl, email) == {u \in tbl : u.email = email}

\* Lookup by a column other than the primary key.
SelectByIdWrong(tbl, id) == {u \in tbl : u.id # id}

SelectById(tbl, id) == {u \in tbl : u.id = id}

---------------------------------------------------------------------------
(* Requests                                                                *)

NoResp == [status |-> 0, error |-> "", user |-> NoUser, token |-> NoToken]

Idle ==
    [kind |-> "none", pc |-> "idle",
     name |-> "", email |-> "", password |-> "",
     header |-> [parts |-> 0, token |-> NoToken],
     hashed |-> NoHash, result |-> NoResult, decoded |-> 0,
     resp |-> NoResp,
     \* history, for stating the properties: the requests that had been
     \* answered with a token when this one arrived; whether the store
     \* executed this request's query; whether no row had the request's
     \* email when that query reached the store
     pred |-> {}, answered |-> FALSE, fresh |-> FALSE]

Done(r) == req[r].pc = "done"

DoneSet == {r \in Req : Done(r)}

\* Requests arrive one after the other; slots are taken in order.
CanArrive(r) ==
    /\ req[r].kind = "none"
    /\ \A q \in Req : q < r => req[q].kind # "none"

Issued == {q \in DoneSet : req[q].resp.token # NoToken}

Arrived(r, kind) == [Idle EXCEPT !.kind = kind, !.pred = Issued]

Error(status, msg) == [NoResp EXCEPT !.status = status, !.error = msg]

\* The handler's locals die with the answer.
Reply(r, resp) ==
    [req[r] EXCEPT !.pc = "done", !.resp = resp,
                   !.hashed = NoHash, !.result = NoResult, !.decoded = 0]

RegisterBodies ==
    [name : Names, email : Emails, password : Passwords]
        \cup {[name |-> "", email |-> "a@x.com", password |-> "secret123"],
              [name |-> "Amina", email |-> "", password |-> "secret123"],
              [name |-> "Amina", email |-> "a@x.com", password |-> ""]}

LoginBodies ==
    [email : Emails, password : LoginPasswords]
        \cup {[email |-> "", password |-> "secret123"],
              [email |-> "a@x.com", password |-> ""]}

Init ==
    /\ dbUp \in BOOLEAN
    /\ tableExists = FALSE
    /\ startup = "pending"
    /\ users = {}
    /\ seq = 0
    /\ req = [r \in Req |-> Idle]

---------------------------------------------------------------------------
(* Environment and startup                                                 *)

StoreDown ==
    /\ dbUp
    /\ dbUp' = FALSE
    /\ UNCHANGED <<tableExists, startup, users, seq, req>>

StoreUp ==
    /\ ~dbUp
    /\ dbUp' = TRUE
    /\ UNCHANGED <<tableExists, startup, users, seq, req>>

\* createTables(), called once at module load and not awaited: its CREATE
\* TABLE IF NOT EXISTS completes at some later turn of the event loop; a
\* failure is logged and swallowed.
CreateTables ==
    /\ startup = "pending"
    /\ IF dbUp
       THEN tableExists' = TRUE /\ startup' = "ready"
       ELSE tableExists' = tableExists /\ startup' = "failed"
    /\ UNCHANGED <<dbUp, users, seq, req>>

\* migrate.js, run by an operator as a separate process: the same CREATE
\* TABLE IF NOT EXISTS, then process.exit.
Migrate ==
    /\ dbUp
    /\ ~tableExists
    /\ tableExists' = TRUE
    /\ UNCHANGED <<dbUp, startup, users, seq, req>>

---------------------------------------------------------------------------
(* GET /, GET /health, GET /test-db                                        *)

Root(r) ==
    /\ CanArrive(r)
    /\ req' = [req EXCEPT ![r] =
                 [Arrived(r, "root") EXCEPT !.pc = "done", !.resp = Error(200, "")]]
    /\ UNCHANGED <<dbUp, tableExists, startup, users, seq>>

Health(r) ==
    /\ CanArrive(r)
    /\ req' = [req EXCEPT ![r] =
                 [Arrived(r, "health") EXCEPT !.pc = "done", !.resp = Error(200, "")]]
    /\ UNCHANGED <<dbUp, tableExists, startup, users, seq>>

TestDb(r) ==
    /\ CanArrive(r)
    /\ req' = [req EXCEPT ![r] = [Arrived(r, "testdb") EXCEPT !.pc = "now"]]
    /\ UNCHANGED <<dbUp, tableExists, startup, users, seq>>

\* SELECT NOW() needs the server, not the table.
TestDbQuery(r) ==
    /\ req[r].kind = "testdb"
    /\ req[r].pc = "now"
    /\ req' = [req EXCEPT ![r] =
                 [Reply(r, IF dbUp THEN Error(200, "")
                           ELSE Error(500, "Database connection failed"))
                    EXCEPT !.answered = dbUp]]
    /\ UNCHANGED <<dbUp, tableExists, startup, users, seq>>

---------------------------------------------------------------------------
(* POST /api/register                                                      *)

\* if (!name || !email || !password)
RegisterValid(b) == b.name # "" /\ b.email # "" /\ b.password # ""

Register(r, b) ==
    /\ CanArrive(r)
    /\ LET a == [Arrived(r, "register") EXCEPT
                   !.name = b.name, !.email = b.email, !.password = b.password]
       IN req' = [req EXCEPT ![r] =
                    IF RegisterValid(b)
                    THEN [a EXCEPT !.pc = "hash"]
                    ELSE [a EXCEPT !.pc = "done",
                                   !.resp = Error(400, "All fields are required")]]
    /\ UNCHANGED <<dbUp, tableExists, startup, users, seq>>

\* await bcrypt.hash(password, 10), then the INSERT is sent
RegisterHash(r, salt) ==
    /\ req[r].kind = "register"
    /\ req[r].pc = "hash"
    /\ req' = [req EXCEPT ![r].hashed = BcryptHash(req[r].password, salt),
                          ![r].pc = "insert"]
    /\ UNCHANGED <<dbUp, tableExists, startup, users, seq>>

\* A row is stored although the statement is answered with an error.
InsertedRowsOnError(tbl, row, code) == tbl \cup {row}

\* The rows of the table after the INSERT: the statement is atomic, a row is
\* stored only if it is answered without error.
InsertedRows(tbl, row, code) == IF code = "" THEN tbl \cup {row} ELSE tbl

\* The store executes INSERT INTO users ... RETURNING id, name, email.  The
\* default nextval('users_id_seq') is evaluated before the unique index is
\* checked, so a conflicting insert consumes an id.
RegisterInsert(r) ==
    /\ req[r].kind = "register"
    /\ req[r].pc = "insert"
    /\ LET reached == QueryError = ""
           id == NextVal(seq)
           row == [id |-> id, name |-> req[r].name, email |-> req[r].email,
                   password |-> req[r].hashed, creator |-> r]
           code == IF ~reached THEN QueryError
                   ELSE IF EmailTaken(users, req[r].email) THEN "23505"
                   ELSE ""
       IN /\ seq' = IF reached THEN id ELSE seq
          /\ users' = InsertedRows(users, row, code)
          /\ req' = [req EXCEPT
                       ![r].pc = "inserted",
                       ![r].result = [code |-> code,
                                      row |-> IF code = "" THEN Public(row)
                                              ELSE NoUser],
                       ![r].answered = reached,
                       ![r].fresh = ~(\E u \in users : u.email = req[r].email)]
    /\ UNCHANGED <<dbUp, tableExists, startup>>

\* The payload reads a property the returned row does not have
\* (rows[0].userId): the token carries no user id.
RegisterResponseNoSubject(result) ==
    IF result.code = ""
    THEN [status |-> 200, error |-> "", user |-> result.row,
          token |-> JwtSign([userId |-> 0], JWT_SECRET)]
    ELSE IF result.code = "23505" THEN Error(400, "Email already exists")
    ELSE Error(500, ServerError(result.code))

\* jwt.sign throws after the row was stored.
RegisterResponseSignThrows(result) ==
    IF result.code = "23505" THEN Error(400, "Email already exists")
    ELSE IF result.code = "" THEN Error(500, "Server error: secretOrPrivateKey must have a value")
    ELSE Error(500, ServerError(result.code))

\* lines 102-119: sign and answer, or the catch block
RegisterResponse(result) ==
    IF result.code = ""
    THEN [status |-> 200, error |-> "", user |-> result.row,
          token |-> JwtSign([userId |-> result.row.id], JWT_SECRET)]
    ELSE IF result.code = "23505" THEN Error(400, "Email already exists")
    ELSE Error(500, ServerError(result.code))

RegisterRespond(r) ==
    /\ req[r].kind = "register"
    /\ req[r].pc = "inserted"
    /\ req' = [req EXCEPT ![r] = Reply(r, RegisterResponse(req[r].result))]
    /\ UNCHANGED <<dbUp, tableExists, startup, users, seq>>

---------------------------------------------------------------------------
(* POST /api/login                                                         *)

\* if (!email || !password)
LoginValid(b) == b.email # "" /\ b.password # ""

Login(r, b) ==
    /\ CanArrive(r)
    /\ LET a == [Arrived(r, "login") EXCEPT
                   !.email = b.email, !.password = b.password]
       IN req' = [req EXCEPT ![r] =
                    IF LoginValid(b)
                    THEN [a EXCEPT !.pc = "select"]
                    ELSE [a EXCEPT !.pc = "done",
                                   !.resp = Error(400, "Email and password required")]]
    /\ UNCHANGED <<dbUp, tableExists, startup, users, seq>>

\* The store executes SELECT * FROM users WHERE email = $1; the handler
\* answers (catch block, no rows) or goes on to bcrypt.compare.
LoginSelect(r) ==
    /\ req[r].kind = "login"
    /\ req[r].pc = "select"
    /\ LET reached == QueryError = ""
           rows == SelectByEmail(users, req[r].email)
           noted == [req[r] EXCEPT
                       !.answered = reached,
                       !.fresh = ~(\E u \in users : u.email = req[r].email)]
       IN req' = [req EXCEPT ![r] =
                    IF ~reached
                    THEN [noted EXCEPT !.pc = "done",
                                       !.resp = Error(500, ServerError(QueryError))]
                    ELSE IF rows = {}
                    THEN [noted EXCEPT !.pc = "done",
                                       !.resp = Error(400, "User not found")]
                    ELSE LET user == CHOOSE u \in rows : TRUE
                         IN [noted EXCEPT
                               !.pc = "compare",
                               !.hashed = user.password,
                               !.result = [code |-> "", row |-> Public(user)]]]
    /\ UNCHANGED <<dbUp, tableExists, startup, users, seq>>

\* The payload reads a property the row does not have (user.userId): the
\* token carries no user id.
LoginResponseNoSubject(valid, user) ==
    IF valid
    THEN [status |-> 200, error |-> "", user |-> user,
          token |-> JwtSign([userId |-> 0], JWT_SECRET)]
    ELSE Error(400, "Invalid password")

\* lines 147-159
LoginResponse(valid, user) ==
    IF valid
    THEN [status |-> 200, error |-> "", user |-> user,
          token |-> JwtSign([userId |-> user.id], JWT_SECRET)]
    ELSE Error(400, "Invalid password")

\* await bcrypt.compare(password, user.password), then sign and answer
LoginCompare(r) ==
    /\ req[r].kind = "login"
    /\ req[r].pc = "compare"
    /\ req' = [req EXCEPT ![r] =
                 Reply(r, LoginResponse(
                            BcryptCompare(req[r].password, req[r].hashed),
                            req[r].result.row))]
    /\ UNCHANGED <<dbUp, tableExists, startup, users, seq>>

---------------------------------------------------------------------------
(* GET /api/profile                                                        *)

Profile(r, h) ==
    /\ CanArrive(r)
    /\ LET a == [Arrived(r, "profile") EXCEPT !.header = h]
           token == HeaderToken(h)
       IN req' = [req EXCEPT ![r] =
                    IF token = NoToken
                    THEN [a EXCEPT !.pc = "done",
                                   !.resp = Error(401, "No token provided")]
                    ELSE IF ~JwtVerifies(token, JWT_SECRET)
                    THEN [a EXCEPT !.pc = "done",
                                   !.resp = Error(401, "Invalid token")]
                    ELSE [a EXCEPT !.pc = "select",
                                   !.decoded = JwtPayload(token).userId]]
    /\ UNCHANGED <<dbUp, tableExists, startup, users, seq>>

\* A catch block that reports the store's failure as such.
ProfileCatchStoreError == Error(500, "Server error: connect ECONNREFUSED")

\* } catch (error) { res.status(401).json({ error: 'Invalid token' }) }
ProfileCatch == Error(401, "Invalid token")

\* The store executes SELECT id, name, email, created_at FROM users WHERE
\* id = $1, and the handler answers.
ProfileSelect(r) ==
    /\ req[r].kind = "profile"
    /\ req[r].pc = "select"
    /\ LET reached == QueryError = ""
           rows == SelectById(users, req[r].decoded)
           noted == [req[r] EXCEPT !.answered = reached,
                                   !.pc = "done", !.decoded = 0]
       IN req' = [req EXCEPT ![r] =
                    IF ~reached
                    THEN [noted EXCEPT !.resp = ProfileCatch]
                    ELSE IF rows = {}
                    THEN [noted EXCEPT !.resp = Error(404, "User not found")]
                    ELSE [noted EXCEPT
                            !.resp = [status |-> 200, error |-> "",
                                      user |-> Public(CHOOSE u \in rows : TRUE),
                                      token |-> NoToken]]]
    /\ UNCHANGED <<dbUp, tableExists, startup, users, seq>>

---------------------------------------------------------------------------

Next ==
    \/ StoreDown
    \/ StoreUp
    \/ CreateTables
    \/ Migrate
    \/ \E r \in Req :
        \/ Root(r)
        \/ Health(r)
        \/ TestDb(r)
        \/ TestDbQuery(r)
        \/ \E b \in RegisterBodies : Register(r, b)
        \/ \E salt \in Salts : RegisterHash(r, salt)
        \/ RegisterInsert(r)
        \/ RegisterRespond(r)
        \/ \E b \in LoginBodies : Login(r, b)
        \/ LoginSelect(r)
        \/ LoginCompare(r)
        \/ \E h \in Headers : Profile(r, h)
        \/ ProfileSelect(r)

Spec == Init /\ [][Next]_vars

---------------------------------------------------------------------------
(* Vocabulary of the properties                                            *)

Answer(r) == req[r].resp

Succeeded(r) == Done(r) /\ Answer(r).status = 200

Failed(r, status, msg) ==
    Done(r) /\ Answer(r).status = status /\ Answer(r).error = msg

DuplicateEmailError(r) == Failed(r, 400, "Email already exists")

TableMissing(r) ==
    Failed(r, 500, "Server error: relation \"users\" does not exist")

Unreachable(r) == Failed(r, 500, "Server error: connect ECONNREFUSED")

StoreError(r) == TableMissing(r) \/ Unreachable(r)

ValidRegister(r) ==
    /\ req[r].kind = "register"
    /\ req[r].name # "" /\ req[r].email # "" /\ req[r].password # ""

ValidLogin(r) ==
    /\ req[r].kind = "login"
    /\ req[r].email # "" /\ req[r].password # ""

\* The token was signed with the service's key over the payload it carries.
TokenGenuine(t) == t.wf /\ t.key = JWT_SECRET /\ t.signedId = t.userId

\* The stored hash is the hash of this password under its own salt.
PasswordMatches(password, hash) == hash.digest = <<hash.salt, password>>

RowsOf(email) == {u \in users : u.email = email}

CreatedBy(r) == {u \in users : u.creator = r}

---------------------------------------------------------------------------
(* C1: two Register requests for the same email                            *)

\* r1 and r2 are the only two Register requests for their email, and both
\* have been answered.
RacingPair(r1, r2) ==
    /\ r1 # r2
    /\ ValidRegister(r1) /\ ValidRegister(r2)
    /\ req[r1].email = req[r2].email
    /\ Done(r1) /\ Done(r2)
    /\ \A q \in Req \ {r1, r2} :
          ~(req[q].kind = "register" /\ req[q].email = req[r1].email)

ExactlyOneWins(r1, r2) ==
    /\ \/ /\ Succeeded(r1) /\ TokenGenuine(Answer(r1).token)
          /\ DuplicateEmailError(r2)
       \/ /\ Succeeded(r2) /\ TokenGenuine(Answer(r2).token)
          /\ DuplicateEmailError(r1)
    /\ Cardinality(RowsOf(req[r1].email)) = 1

\* C1 as stated: of two Register requests for the same email, under any
\* interleaving of their steps, exactly one succeeds with a token, the other
\* receives DuplicateEmailError, and the table then holds exactly one row for
\* that email.
C1_Original ==
    \A r1, r2 \in Req : RacingPair(r1, r2) => ExactlyOneWins(r1, r2)

\* C1 amended: among the answered Register requests for one email at most one
\* succeeds and every other one receives DuplicateEmailError or StoreError;
\* the table never holds more than one row for the email, and holds one once
\* a request has succeeded or has been refused as a duplicate; when neither
\* of two racing requests receives StoreError, exactly one succeeds with a
\* token and the other receives DuplicateEmailError.
C1_Amended ==
    \A e \in Emails :
        LET S == {r \in Req : ValidRegister(r) /\ Done(r) /\ req[r].email = e}
        IN /\ Cardinality(RowsOf(e)) <= 1
           /\ \A r \in S :
                 /\ Succeeded(r) \/ DuplicateEmailError(r) \/ StoreError(r)
                 /\ Succeeded(r) \/ DuplicateEmailError(r)
                       => Cardinality(RowsOf(e)) = 1
           /\ \A r1, r2 \in S : r1 # r2 => ~(Succeeded(r1) /\ Succeeded(r2))
           /\ \A r1, r2 \in S :
                 RacingPair(r1, r2) /\ ~StoreError(r1) /\ ~StoreError(r2)
                    => ExactlyOneWins(r1, r2)

\* Two Register requests for one email raced: the one that arrived first
\* lost to the one that arrived second.
C1_Witness ==
    \E r1, r2 \in Req :
        /\ RacingPair(r1, r2)
        /\ r2 < r1
        /\ Succeeded(r1) /\ DuplicateEmailError(r2)

---------------------------------------------------------------------------
(* C2: Register with a fresh email                                         *)

RegisteredWithToken(r) ==
    /\ Succeeded(r)
    /\ TokenGenuine(Answer(r).token)
    /\ \E u \in CreatedBy(r) :
          /\ u.email = req[r].email
          /\ Answer(r).token.userId = u.id
          /\ Answer(r).user = [id |-> u.id, name |-> u.name, email |-> u.email]

\* C2 as stated: a Register with non-empty fields whose email has no row
\* succeeds in every reachable state of the service, with a token whose
\* userId is the id of the new row.
C2_Original ==
    \A r \in Req :
        ValidRegister(r) /\ Done(r) /\ req[r].fresh => RegisteredWithToken(r)

\* C2 amended: such a Register succeeds, with a token whose userId is the id
\* of the new row, whenever the store executes its INSERT; when the store
\* does not (it is unreachable, or table users does not exist yet), the
\* request receives StoreError, no row is created and no token is issued.
C2_Amended ==
    \A r \in Req :
        ValidRegister(r) /\ Done(r) /\ req[r].fresh =>
            IF req[r].answered
            THEN RegisteredWithToken(r)
            ELSE /\ StoreError(r)
                 /\ CreatedBy(r) = {}
                 /\ Answer(r).token = NoToken

\* A Register with a fresh email succeeded after an earlier one had consumed
\* ids: its token carries the id of its own row.
C2_Witness ==
    \E r \in Req :
        /\ ValidRegister(r) /\ req[r].fresh /\ req[r].answered
        /\ RegisteredWithToken(r)
        /\ Answer(r).token.userId > 1

---------------------------------------------------------------------------
(* C3: the outcomes of Login                                               *)

\* C3: a Login with both fields non-empty whose query the store executed is
\* answered UserNotFoundError if no row had the email, InvalidCredentialsError
\* if the row's hash does not verify the password, and otherwise succeeds
\* with a token whose userId is that row's id.
C3_LoginOutcomes ==
    \A l \in Req :
        ValidLogin(l) /\ Done(l) /\ req[l].answered =>
            IF req[l].fresh
            THEN Failed(l, 400, "User not found")
            ELSE \E u \in RowsOf(req[l].email) :
                    IF PasswordMatches(req[l].password, u.password)
                    THEN /\ Succeeded(l)
                         /\ TokenGenuine(Answer(l).token)
                         /\ Answer(l).token.userId = u.id
                         /\ Answer(l).user.id = u.id
                    ELSE Failed(l, 400, "Invalid password")

\* One Login succeeded and another was refused for its password.
C3_Witness ==
    \E l1, l2 \in Req :
        /\ ValidLogin(l1) /\ Succeeded(l1)
        /\ ValidLogin(l2) /\ Failed(l2, 400, "Invalid password")

---------------------------------------------------------------------------
(* C4: GetProfile                                                          *)

\* The tokens that had been issued when request p arrived.
IssuedTo(p) == {Answer(q).token : q \in req[p].pred}

Presents(p, t) ==
    /\ req[p].kind = "profile"
    /\ req[p].header.parts = 2
    /\ req[p].header.token = t

\* p was answered with the id in the token and the email of the Register
\* request that created that user.
ProfileOf(p, t) ==
    /\ Succeeded(p)
    /\ Answer(p).user.id = t.userId
    /\ \E u \in users :
          /\ u.id = t.userId
          /\ req[u.creator].kind = "register"
          /\ Answer(p).user.email = req[u.creator].email

ProfileRejections ==
    \A p \in Req :
        req[p].kind = "profile" /\ Done(p) =>
            /\ req[p].header.parts = 0 => Failed(p, 401, "No token provided")
            /\ req[p].header.parts = 2 /\ ~TokenGenuine(req[p].header.token)
                  => Failed(p, 401, "Invalid token")

---------------------------------------------------------------------------
(* C5: no partial writes in Register                                       *)

\* C5: a Register request answered with an error (ValidationError,
\* DuplicateEmailError or StoreError) has created no row and carries no
\* token; an answered Register request has a row if and only if it was
\* answered with success and a token; a request never has more than one row,
\* and has none before its INSERT was executed.
C5_NoPartialWrites ==
    /\ \A u \in users : req[u.creator].kind = "register"
    /\ \A r \in Req :
          req[r].kind = "register" =>
             /\ Cardinality(CreatedBy(r)) <= 1
             /\ CreatedBy(r) # {} => req[r].pc \in {"inserted", "done"}
             /\ Done(r) =>
                   /\ \/ Succeeded(r)
                      \/ Failed(r, 400, "All fields are required")
                      \/ DuplicateEmailError(r)
                      \/ StoreError(r)
                   /\ ~ValidRegister(r) => Failed(r, 400, "All fields are required")
                   /\ ~Succeeded(r) =>
                         CreatedBy(r) = {} /\ Answer(r).token = NoToken
                   /\ CreatedBy(r) # {} <=>
                         Succeeded(r) /\ Answer(r).token # NoToken

\* One Register request succeeded and has its row; two others were answered
\* DuplicateEmailError and StoreError and have none.
C5_Witness ==
    /\ \E r \in Req :
          req[r].kind = "register" /\ Succeeded(r) /\ CreatedBy(r) # {}
    /\ \E r \in Req :
          req[r].kind = "register" /\ DuplicateEmailError(r) /\ CreatedBy(r) = {}
    /\ \E r \in Req :
          req[r].kind = "register" /\ StoreError(r) /\ CreatedBy(r) = {}

---------------------------------------------------------------------------
(* C6: recovery after a store outage at startup                            *)

\* C6 as stated: when the store was unavailable at startup (createTables
\* failed), a Register with a fresh email and a Login with valid credentials
\* that reach the store once it is up again succeed, without a restart.
C6_Claim ==
    \A r \in Req :
        startup = "failed" /\ Done(r) /\ ~Unreachable(r) =>
            /\ ValidRegister(r) /\ req[r].fresh => Succeeded(r)
            /\ ValidLogin(r)
                 /\ (\E u \in RowsOf(req[r].email) :
                        PasswordMatches(req[r].password, u.password))
               => Succeeded(r)

---------------------------------------------------------------------------
(* C7: Register, then Login                                                *)

SameSubject(r, l) ==
    /\ Succeeded(l)
    /\ TokenGenuine(Answer(r).token) /\ TokenGenuine(Answer(l).token)
    /\ Answer(l).token.userId = Answer(r).token.userId

\* Login l carries the credentials of Register r and arrived after r had
\* been answered with success.
LoginAfterRegister(r, l) ==
    /\ ValidRegister(r) /\ Succeeded(r)
    /\ req[l].kind = "login"
    /\ r \in req[l].pred
    /\ req[l].email = req[r].email
    /\ req[l].password = req[r].password

\* C7 as stated, for a Register that succeeded: a later Login with the same
\* email and password succeeds too, and the two tokens carry the same userId.
C7_Original ==
    \A r, l \in Req : LoginAfterRegister(r, l) /\ Done(l) => SameSubject(r, l)

\* C7 amended: after a Register that succeeded, a later Login with the same
\* email and password, whatever was interleaved, succeeds with a token of the
\* same userId whenever the store executes its query, and receives StoreError
\* when the store does not.
C7_Amended ==
    \A r, l \in Req :
        LoginAfterRegister(r, l) /\ Done(l) =>
            IF req[l].answered THEN SameSubject(r, l) ELSE StoreError(l)

\* Register, another user's registration in between, then Login: same userId.
C7_Witness ==
    \E l \in Req : \E r \in req[l].pred : \E q \in req[l].pred :
        /\ r \in req[q].pred
        /\ ValidRegister(q) /\ Succeeded(q)
        /\ LoginAfterRegister(r, l) /\ SameSubject(r, l)

---------------------------------------------------------------------------
(* C8: invariants of table users                                           *)

UsersWellFormed ==
    /\ \A u, v \in users : u.email = v.email => u = v
    /\ \A u, v \in users : u.id = v.id => u = v
    /\ \A u \in users :
          /\ u.password # NoHash
          /\ u.password.salt # "" /\ u.password.digest # ""
          /\ u.id \in 1..seq

\* Rows stay as they are, and a new row gets an id above every id the
\* sequence has handed out, those consumed by refused inserts included.
UsersStep ==
    /\ users \subseteq users'
    /\ seq' >= seq
    /\ \A u \in users' \ users : u.id > seq /\ u.id <= seq'

\* C8: no two rows share an email, every row has a non-empty password hash,
\* a row's id never changes, and no id is ever given to a second row, also
\* after registrations refused for a duplicate email.
C8_UsersInvariant == [](UsersWellFormed) /\ [][UsersStep]_vars

\* Two rows, the second created after a refused duplicate had consumed an id.
C8_Witness ==
    /\ Cardinality(users) = 2
    /\ \E u \in users : u.id = 3
    /\ \E r \in Req : DuplicateEmailError(r)

---------------------------------------------------------------------------
(* C9: only a successful Register writes                                   *)

\* The step is the execution of request r's INSERT, answered without error,
\* and adds exactly one row.
SuccessfulInsert(r) ==
    /\ req[r].kind = "register"
    /\ req[r].pc = "insert"
    /\ req'[r].pc = "inserted"
    /\ req'[r].result.code = ""
    /\ \E u \in users' : u \notin users /\ users' = users \cup {u}

ReadOnlyKinds == {"login", "profile", "root", "health", "testdb"}

WritesOnlyByRegister ==
    /\ users \subseteq users'
    /\ users' # users => \E r \in Req : SuccessfulInsert(r)
    /\ \A r \in Req :
          req'[r] # req[r] /\ req'[r].kind \in ReadOnlyKinds => users' = users

\* C9: Login, GetProfile and the diagnostic endpoints leave table users
\* unchanged whatever their outcome; a row is added only by the successful
\* INSERT of a Register, and no row is ever updated or deleted.
C9_FrameEffect == [][WritesOnlyByRegister]_vars

\* Login, GetProfile and /test-db have all been answered while a row exists.
C9_Witness ==
    /\ users # {}
    /\ \E l, p \in Req :
          /\ req[l].kind = "login" /\ Done(l) /\ req[l].answered
          /\ req[p].kind \in {"profile", "testdb"} /\ Done(p)

---------------------------------------------------------------------------
(* C10: the failures of GetProfile                                         *)

\* C10: with a token in the header, GetProfile answers 200, 404 'User not
\* found' or 401 'Invalid token' and nothing else: a token that does not
\* verify gets 401, and so does a genuine token whose store query fails;
\* 500 is never returned.
C10_ProfileFailures ==
    \A p \in Req :
        req[p].kind = "profile" /\ Done(p) /\ HeaderToken(req[p].header) # NoToken =>
            LET t == req[p].header.token
            IN /\ Answer(p).status \in {200, 404, 401}
               /\ Answer(p).status = 401 => Failed(p, 401, "Invalid token")
               /\ ~TokenGenuine(t) => Failed(p, 401, "Invalid token")
               /\ TokenGenuine(t) /\ ~req[p].answered
                     => Failed(p, 401, "Invalid token")
               /\ TokenGenuine(t) /\ req[p].answered
                     => Succeeded(p) \/ Failed(p, 404, "User not found")

\* A genuine token was answered 401 'Invalid token' because the store query
\* failed, although the user exists.
C10_Witness ==
    \E p \in Req :
        /\ req[p].kind = "profile"
        /\ TokenGenuine(req[p].header.token)
        /\ ~req[p].answered
        /\ Failed(p, 401, "Invalid token")
        /\ \E u \in users : u.id = req[p].header.token.userId

=============================================================================
